---- MODULE Spec2Model ----
(***************************************************************************)
(* Model of the OAuth2 authentication service of src/auth: the SQLite     *)
(* users table (database.py), the request validation (schemas.py) and the *)
(* JWT helpers, dependencies and routes of routers/auth.py.               *)
(*                                                                         *)
(* Strings that the code inspects character by character (usernames,      *)
(* passwords) are sequences of one-character strings.  Time is counted in *)
(* clock ticks, TicksPerSecond of them to a second, because PyJWT stores  *)
(* exp and iat as whole seconds while the clock runs finer than that.     *)
(***************************************************************************)
EXTENDS Integers, Sequences, FiniteSets, TLC

VARIABLES
    users,      \* the rows of table users, in insertion order (row i has id i)
    reg,        \* per worker: the register_user request it is in the middle of
    issued,     \* the access tokens clients hold, each with the call that made it
    clock,      \* the current time, in ticks
    req,        \* the request just answered ...
    resp,       \* ... and its response, until the client has read it
    registered  \* history: the (username, password) pairs as typed in the
                \* register requests that were answered 201

vars == <<users, reg, issued, clock, req, resp, registered>>

\* ------------------------------------------------------------------ bounds
MaxTokens == 1          \* tokens kept by clients
MaxEpoch == 1           \* the clock is observed in epochs 0..MaxEpoch, one token lifetime apart
Window == 2             \* ... at ticks 0..Window of each epoch
TicksPerSecond == 2     \* resolution of the clock
MaxTTL == 2             \* longest expires_delta (ticks) tried on create_access_token directly

Procs == {"w1", "w2"}   \* worker processes sharing auth.db (specification ConcSpec)

\* --------------------------------------------------------------- constants
ACCESS_TOKEN_EXPIRE_MINUTES == 30
SECRET_KEY == "your-super-secret-key-change-in-production"
ALGORITHM == "HS256"

None == [kind |-> "None"]

\* ---------------------------------------------------------------- strings
UpperLetters == <<"A","B","C","D","E","F","G","H","I","J","K","L","M",
                  "N","O","P","Q","R","S","T","U","V","W","X","Y","Z">>
LowerLetters == <<"a","b","c","d","e","f","g","h","i","j","k","l","m",
                  "n","o","p","q","r","s","t","u","v","w","x","y","z">>
Digits == {"0","1","2","3","4","5","6","7","8","9"}
Range(s) == {s[i] : i \in DOMAIN s}

\* str.isdigit / str.isalnum / str.lower on the ASCII characters used here
isdigit(c) == c \in Digits
isalnum(v) ==
    /\ Len(v) > 0
    /\ \A i \in DOMAIN v : v[i] \in Range(UpperLetters) \cup Range(LowerLetters) \cup Digits
lowerChar(c) ==
    IF c \in Range(UpperLetters)
    THEN LowerLetters[CHOOSE i \in DOMAIN UpperLetters : UpperLetters[i] = c]
    ELSE c
lower(v) == [i \in DOMAIN v |-> lowerChar(v[i])]

\* ------------------------------------------------------- request inputs
Alice == <<"A","l","i","c","e">>
alice == <<"a","l","i","c","e">>
bob == <<"b","o","b">>
a_b == <<"a","_","b">>
al == <<"a","l">>
secret1 == <<"s","e","c","r","e","t","1">>
hunter2 == <<"h","u","n","t","e","r","2">>
wrongpw == <<"w","r","o","n","g","p","w">>
pw1 == <<"p","w","1">>

\* the register requests tried (emails are taken as already valid EmailStr values)
RegisterRequests ==
    { [username |-> Alice, email |-> "alice@example.com", password |-> secret1],
      [username |-> alice, email |-> "bob@example.com",   password |-> hunter2],
      [username |-> bob,   email |-> "alice@example.com", password |-> hunter2],
      [username |-> bob,   email |-> "bob@example.com",   password |-> secret1],
      [username |-> a_b,   email |-> "bob@example.com",   password |-> secret1],
      [username |-> al,    email |-> "bob@example.com",   password |-> secret1],
      [username |-> bob,   email |-> "bob@example.com",   password |-> wrongpw],
      [username |-> bob,   email |-> "bob@example.com",   password |-> pw1] }

LoginUsernames == {Alice, alice, bob}
LoginPasswords == {secret1, hunter2, wrongpw}

\* ------------------------------------------------------------- schemas.py
validate_password(v) ==
    IF Len(v) < 6 THEN FALSE
    ELSE IF ~(\E i \in DOMAIN v : isdigit(v[i])) THEN FALSE
    ELSE TRUE

validate_username(v) == isalnum(v)

\* UserCreate(**body): None when pydantic rejects the body (422), the
\* validated model otherwise; the username validator returns v.lower()
UserCreate(body) ==
    IF /\ Len(body.username) >= 3 /\ Len(body.username) <= 50
       /\ validate_username(body.username)
       /\ Len(body.password) >= 6 /\ Len(body.password) <= 100
       /\ validate_password(body.password)
    THEN [email |-> body.email, username |-> lower(body.username),
          password |-> body.password]
    ELSE None

\* mutant: is_active takes a default instead of the column
User_always_active(row) ==
    [id |-> row.id, email |-> row.email, username |-> row.username,
     is_active |-> TRUE]

\* User(**row): the public model drops hashed_password
User(row) ==
    [id |-> row.id, email |-> row.email, username |-> row.username,
     is_active |-> row.is_active]

HTTPException(status_code, detail, headers) ==
    [status |-> status_code, detail |-> detail, headers |-> headers]
Bearer == "WWW-Authenticate: Bearer"
NoHeaders == "none"

\* ------------------------------------------------------------ database.py
\* cursor.fetchone(): the first of the rows a SELECT matched, or None
FetchOne(rows, matched) ==
    IF matched = {} THEN None
    ELSE rows[CHOOSE i \in matched : \A j \in matched : i <= j]

get_by_username(rows, username) ==
    FetchOne(rows, {i \in DOMAIN rows : rows[i].username = username})
get_by_email(rows, email) ==
    FetchOne(rows, {i \in DOMAIN rows : rows[i].email = email})
get_by_id(rows, user_id) ==
    FetchOne(rows, {i \in DOMAIN rows : rows[i].id = user_id})

\* mutant: the username check finds nothing
username_exists_skipped(rows, username) == FALSE
username_exists(rows, username) == get_by_username(rows, username) # None
email_exists(rows, email) == get_by_email(rows, email) # None

\* results of a function that may raise
Return(v) == [raised |-> FALSE, value |-> v]
Raise(e) == [raised |-> TRUE, value |-> e]
Raised(v) == "raised" \in DOMAIN v /\ v.raised

\* pwd_context.hash: a bcrypt digest embeds its salt
pwd_hash(password, salt) ==
    [scheme |-> "bcrypt", salt |-> salt, digest |-> <<salt, password>>]

\* pwd_context.verify(secret, hash) of CryptContext(schemes=["bcrypt"]): the
\* hash is identified by its scheme prefix (UnknownHashError when no
\* configured scheme claims it), then parsed (MalformedHashError when it is
\* not a whole bcrypt digest), then recomputed with its salt and compared
pwd_context_verify(secret, hash) ==
    IF hash.scheme # "bcrypt" THEN Raise("UnknownHashError")
    ELSE IF Len(hash.digest) # 2 THEN Raise("MalformedHashError")
    ELSE Return(hash.digest = <<hash.salt, secret>>)

\* verify_password: the result of pwd_context.verify, or its exception
verify_password(plain_password, hashed_password) ==
    pwd_context_verify(plain_password, hashed_password)

\* a salt no stored digest uses (each hash call draws a new random salt)
FreshSalt(rows) ==
    CHOOSE s \in 1..(Len(rows) + 1) :
        \A i \in DOMAIN rows : rows[i].hashed_password.salt # s

\* mutant: the table created without its UNIQUE constraints
NoUniqueConstraint(rows, email, username) == FALSE

\* the UNIQUE constraints of CREATE TABLE users (init_db)
UniqueViolation(rows, email, username) ==
    \E i \in DOMAIN rows : rows[i].email = email \/ rows[i].username = username

\* create_user: [ok |-> FALSE] when the INSERT raises IntegrityError,
\* else the table after the INSERT and cursor.lastrowid
create_user(rows, email, username, password) ==
    LET hashed_password == pwd_hash(password, FreshSalt(rows)) IN
    IF UniqueViolation(rows, email, username)
    THEN [ok |-> FALSE, rows |-> rows, lastrowid |-> 0]
    ELSE [ok |-> TRUE,
          rows |-> Append(rows, [id |-> Len(rows) + 1, email |-> email,
                                 username |-> username,
                                 hashed_password |-> hashed_password,
                                 is_active |-> TRUE]),
          lastrowid |-> Len(rows) + 1]

\* update_user_activity: the table after the UPDATE (rowcount > 0 iff the id exists)
update_user_activity(rows, user_id, is_active) ==
    [i \in DOMAIN rows |->
        IF rows[i].id = user_id THEN [rows[i] EXCEPT !.is_active = is_active]
        ELSE rows[i]]

\* ------------------------------------------------------------------ time
\* datetime.utcnow() is the clock, in ticks; a timedelta is a number of ticks
\* (a record, so that "if expires_delta:" can tell None, zero and the rest apart)
timedelta_minutes(m) == [ticks |-> m * 60 * TicksPerSecond]
timedelta_ticks(n) == [ticks |-> n]
\* timegm(dt.utctimetuple()): PyJWT writes a datetime claim as whole seconds
timegm(dt) == dt \div TicksPerSecond

\* the instants at which the clock is observed
Instants ==
    {e * timedelta_minutes(ACCESS_TOKEN_EXPIRE_MINUTES).ticks + k : e \in 0..MaxEpoch, k \in 0..Window}

\* -------------------------------------------------------------------- JWT
\* HMAC-SHA256 of the encoded header and claims under a key
HS256(payload, key) == <<key, payload>>

\* jwt.encode(to_encode, key, algorithm): datetime claims become NumericDates
jwt_encode(to_encode, key, algorithm) ==
    LET payload == [k \in DOMAIN to_encode |->
                       IF k \in {"exp", "iat"} THEN timegm(to_encode[k])
                       ELSE to_encode[k]]
    IN [alg |-> algorithm, payload |-> payload, sig |-> HS256(payload, key)]

\* mutant: exp is not looked at
jwt_decode_ignoring_exp(token, key, algorithms, now) ==
    IF token.alg \notin algorithms
    THEN [error |-> "InvalidAlgorithmError", payload |-> None]
    ELSE IF token.sig # HS256(token.payload, key)
    THEN [error |-> "InvalidSignatureError", payload |-> None]
    ELSE [error |-> "", payload |-> token.payload]

\* jwt.decode(token, key, algorithms): the algorithm and the signature are
\* checked first, then exp against the current time (no leeway)
jwt_decode(token, key, algorithms, now) ==
    IF token.alg \notin algorithms
    THEN [error |-> "InvalidAlgorithmError", payload |-> None]
    ELSE IF token.sig # HS256(token.payload, key)
    THEN [error |-> "InvalidSignatureError", payload |-> None]
    ELSE IF "exp" \in DOMAIN token.payload
            /\ token.payload["exp"] * TicksPerSecond <= now
    THEN [error |-> "ExpiredSignatureError", payload |-> None]
    ELSE [error |-> "", payload |-> token.payload]

\* dict.get(key): None when the key is absent
dict_get(d, key) == IF key \in DOMAIN d THEN d[key] ELSE None

\* mutant: the lifetime is not added to the expiry
create_access_token_without_lifetime(data, expires_delta, now1, now2) ==
    LET to_encode == [k \in DOMAIN data \cup {"exp", "iat", "type"} |->
                         CASE k = "exp" -> now1
                           [] k = "iat" -> now2
                           [] k = "type" -> "access"
                           [] OTHER -> data[k]]
    IN jwt_encode(to_encode, SECRET_KEY, ALGORITHM)

\* create_access_token(data, expires_delta); now1 and now2 are the readings
\* of the two datetime.utcnow() calls (for expire, then for iat)
create_access_token(data, expires_delta, now1, now2) ==
    LET expire == IF expires_delta # None /\ expires_delta.ticks # 0
                  THEN now1 + expires_delta.ticks
                  ELSE now1 + timedelta_minutes(ACCESS_TOKEN_EXPIRE_MINUTES).ticks
        to_encode == [k \in DOMAIN data \cup {"exp", "iat", "type"} |->
                         CASE k = "exp" -> expire
                           [] k = "iat" -> now2
                           [] k = "type" -> "access"
                           [] OTHER -> data[k]]
    IN jwt_encode(to_encode, SECRET_KEY, ALGORITHM)

TokenData(username, user_id) ==
    [kind |-> "TokenData", username |-> username, user_id |-> user_id]

verify_token(token, now) ==
    LET decoded == jwt_decode(token, SECRET_KEY, {ALGORITHM}, now)
        username == dict_get(decoded.payload, "sub")
        user_id == dict_get(decoded.payload, "user_id")
    IN IF decoded.error = "ExpiredSignatureError"
       THEN Raise(HTTPException(401, "Token has expired", Bearer))
       ELSE IF decoded.error # "" THEN Return(None)
       ELSE IF username = None THEN Return(None)
       ELSE Return(TokenData(username, user_id))

\* ------------------------------------------------------- authentication
\* mutant: the password is not verified
authenticate_user_without_password(rows, username, password) ==
    get_by_username(rows, username)

\* authenticate_user: None, the row, or the exception of verify_password,
\* which it does not catch
authenticate_user(rows, username, password) ==
    LET user_data == get_by_username(rows, username)
        verified == verify_password(password, user_data.hashed_password)
    IN IF user_data = None THEN None
       ELSE IF verified.raised THEN verified
       ELSE IF ~verified.value THEN None
       ELSE user_data

\* ----------------------------------------------------------- dependencies
credentials_exception ==
    HTTPException(401, "Could not validate credentials", Bearer)

get_current_user(rows, token, now) ==
    LET token_data == verify_token(token, now) IN
    IF token_data.raised THEN token_data
    ELSE IF token_data.value = None THEN Raise(credentials_exception)
    ELSE LET user_data == get_by_username(rows, token_data.value.username) IN
         IF user_data = None THEN Raise(credentials_exception)
         ELSE Return(User(user_data))

\* mutant: is_active is not looked at
get_current_active_user_unchecked(rows, token, now) ==
    get_current_user(rows, token, now)

get_current_active_user(rows, token, now) ==
    LET current_user == get_current_user(rows, token, now) IN
    IF current_user.raised THEN current_user
    ELSE IF ~current_user.value.is_active
    THEN Raise(HTTPException(400, "Inactive user", NoHeaders))
    ELSE current_user

get_optional_current_user(rows, token, now) ==
    LET current_user == get_current_user(rows, token, now) IN
    IF current_user.raised THEN Return(None) ELSE current_user

\* -------------------------------------------------------------- responses
Response(route, e, body) ==
    [route |-> route, status |-> e.status, detail |-> e.detail,
     headers |-> e.headers, body |-> body]
OK(status_code) == HTTPException(status_code, "", NoHeaders)
\* the answer to a request whose handler lets an exception escape
InternalServerError == HTTPException(500, "Internal Server Error", NoHeaders)
NoResponse == Response("", OK(0), None)
NoRequest == None

\* --------------------------------------------------- POST /auth/register
\* register_user run from its first statement to its last: the table it
\* leaves and the response.  FastAPI answers 422 when UserCreate rejects
\* the body.
register_user(rows, body) ==
    LET user_data == UserCreate(body) IN
    IF user_data = None
    THEN [rows |-> rows,
          response |-> Response("register", HTTPException(422, "Unprocessable Entity", NoHeaders), None)]
    ELSE IF username_exists(rows, user_data.username)
    THEN [rows |-> rows,
          response |-> Response("register", HTTPException(400, "Username already registered", NoHeaders), None)]
    ELSE IF email_exists(rows, user_data.email)
    THEN [rows |-> rows,
          response |-> Response("register", HTTPException(400, "Email already registered", NoHeaders), None)]
    ELSE LET created == create_user(rows, user_data.email, user_data.username, user_data.password) IN
         IF created.ok
         THEN [rows |-> created.rows,
               response |-> Response("register", OK(201),
                                     User(get_by_id(created.rows, created.lastrowid)))]
         ELSE [rows |-> rows,
               response |-> Response("register", HTTPException(500, "Error creating user", NoHeaders), None)]

\* --------------------------------------------- POST /auth/token, /auth/login
\* mutant: user_id is the row's position counted from 0
login_token_wrong_id(user, now1, now2) ==
    create_access_token([sub |-> user.username, user_id |-> user.id - 1],
                        timedelta_minutes(ACCESS_TOKEN_EXPIRE_MINUTES), now1, now2)

\* the token the two login routes mint for an authenticated user
login_token(user, now1, now2) ==
    create_access_token([sub |-> user.username, user_id |-> user.id],
                        timedelta_minutes(ACCESS_TOKEN_EXPIRE_MINUTES), now1, now2)

\* mutant: the token is minted without looking at is_active
login_for_access_token_unchecked(rows, username, password, now1, now2) ==
    LET user == authenticate_user(rows, username, password) IN
    IF user = None
    THEN Response("token", HTTPException(401, "Incorrect username or password", Bearer), None)
    ELSE Response("token", OK(200),
                  [access_token |-> login_token(user, now1, now2),
                   token_type |-> "bearer",
                   expires_in |-> ACCESS_TOKEN_EXPIRE_MINUTES * 60])

login_for_access_token(rows, username, password, now1, now2) ==
    LET user == authenticate_user(rows, username, password) IN
    IF Raised(user) THEN Response("token", InternalServerError, None)
    ELSE IF user = None
    THEN Response("token", HTTPException(401, "Incorrect username or password", Bearer), None)
    ELSE IF ~user.is_active
    THEN Response("token", HTTPException(400, "Inactive user", NoHeaders), None)
    ELSE Response("token", OK(200),
                  [access_token |-> login_token(user, now1, now2),
                   token_type |-> "bearer",
                   expires_in |-> ACCESS_TOKEN_EXPIRE_MINUTES * 60])

\* mutant: an unknown username gets an answer of its own
login_reporting_unknown_user(rows, username, password, now1, now2) ==
    LET user == authenticate_user(rows, username, password) IN
    IF get_by_username(rows, username) = None
    THEN Response("login", HTTPException(404, "User not found", NoHeaders), None)
    ELSE IF user = None
    THEN Response("login", HTTPException(401, "Invalid credentials", NoHeaders), None)
    ELSE IF ~user.is_active
    THEN Response("login", HTTPException(400, "Account is inactive", NoHeaders), None)
    ELSE Response("login", OK(200),
                  [access_token |-> login_token(user, now1, now2),
                   token_type |-> "bearer",
                   expires_in |-> ACCESS_TOKEN_EXPIRE_MINUTES * 60,
                   user |-> User(user)])

login(rows, username, password, now1, now2) ==
    LET user == authenticate_user(rows, username, password) IN
    IF Raised(user) THEN Response("login", InternalServerError, None)
    ELSE IF user = None
    THEN Response("login", HTTPException(401, "Invalid credentials", NoHeaders), None)
    ELSE IF ~user.is_active
    THEN Response("login", HTTPException(400, "Account is inactive", NoHeaders), None)
    ELSE Response("login", OK(200),
                  [access_token |-> login_token(user, now1, now2),
                   token_type |-> "bearer",
                   expires_in |-> ACCESS_TOKEN_EXPIRE_MINUTES * 60,
                   user |-> User(user)])

\* ------------------------------------------------- routes taking a bearer token
read_users_me(rows, token, now) ==
    LET current_user == get_current_active_user(rows, token, now) IN
    IF current_user.raised THEN Response("me", current_user.value, None)
    ELSE Response("me", OK(200), current_user.value)

logout(rows, token, now) ==
    LET current_user == get_current_active_user(rows, token, now) IN
    IF current_user.raised THEN Response("logout", current_user.value, None)
    ELSE Response("logout", OK(200),
                  [message |-> <<"User ", current_user.value.username, " logged out successfully">>,
                   status |-> "success"])

verify_user_token(rows, token, now) ==
    LET current_user == get_current_user(rows, token, now) IN
    IF current_user.raised THEN Response("verify-token", current_user.value, None)
    ELSE Response("verify-token", OK(200),
                  [valid |-> TRUE, user_id |-> current_user.value.id,
                   username |-> current_user.value.username,
                   is_active |-> current_user.value.is_active])

protected_route(rows, token, now) ==
    LET current_user == get_current_active_user(rows, token, now) IN
    IF current_user.raised THEN Response("protected", current_user.value, None)
    ELSE Response("protected", OK(200),
                  [message |-> <<"Hello ", current_user.value.username, "!">>,
                   user_id |-> current_user.value.id,
                   access_level |-> "authenticated"])

admin_only_route(rows, token, now) ==
    LET current_user == get_current_active_user(rows, token, now) IN
    IF current_user.raised THEN Response("admin-only", current_user.value, None)
    ELSE Response("admin-only", OK(200),
                  [message |-> <<"This is an admin-only route">>,
                   admin_user |-> current_user.value.username])

public_or_private_route(rows, token, now) ==
    LET current_user == get_optional_current_user(rows, token, now) IN
    IF current_user.value # None
    THEN Response("public-or-private", OK(200),
                  [message |-> <<"Hello ", current_user.value.username, ", you are logged in!">>,
                   user_type |-> "authenticated"])
    ELSE Response("public-or-private", OK(200),
                  [message |-> <<"Hello anonymous user!">>, user_type |-> "guest"])

\* ------------------------------------------------------------------ state
\* reg[p].dup is history: the username or the email of the request was
\* taken when the request was made
Idle == [pc |-> "idle", body |-> None, dup |-> FALSE]
Tokens == {i.token : i \in issued}

Init ==
    /\ users = <<>>
    /\ reg = [p \in Procs |-> Idle]
    /\ issued = {}
    /\ clock = 0
    /\ req = NoRequest
    /\ resp = NoResponse
    /\ registered = {}

\* a request is answered; the service takes its next step once the client
\* has read the answer
Answered(request, response) ==
    /\ resp = NoResponse
    /\ req' = request
    /\ resp' = response

Receive ==
    /\ resp # NoResponse
    /\ req' = NoRequest
    /\ resp' = NoResponse
    /\ UNCHANGED <<users, reg, issued, clock, registered>>

Registered(body, id) ==
    [username |-> body.username, password |-> body.password, id |-> id]

\* ------------------------------------------------ one worker (main.py:80-86)
\* uvicorn.run starts one process; its handlers are coroutines that never
\* await, so each runs to its end before the next request is taken
post_register ==
    \E body \in RegisterRequests :
        LET r == register_user(users, body) IN
        /\ Answered([route |-> "register", body |-> body], r.response)
        /\ users' = r.rows
        /\ registered' = IF r.response.status = 201
                         THEN registered \cup {Registered(body, r.response.body.id)}
                         ELSE registered
        /\ UNCHANGED <<reg, issued, clock>>

\* UserRepository.update_user_activity(user_id, is_active)
set_user_activity ==
    \E i \in DOMAIN users, is_active \in BOOLEAN :
        /\ resp = NoResponse
        /\ users' = update_user_activity(users, users[i].id, is_active)
        /\ UNCHANGED <<reg, issued, clock, req, resp, registered>>

Tick ==
    /\ resp = NoResponse
    /\ \E t \in Instants : t > clock /\ clock' = t
    /\ UNCHANGED <<users, reg, issued, req, resp, registered>>

\* the second utcnow() of create_access_token reads the clock at or after the first
LaterReadings == {t \in Instants : t = clock \/ t = clock + 1}

\* a client keeps at most MaxTokens tokens: a new one replaces an old one
Keep(entry) ==
    IF Cardinality(issued \cup {entry}) <= MaxTokens
    THEN {issued \cup {entry}}
    ELSE {(issued \ {old}) \cup {entry} : old \in issued}

Issuance(token, data, expires_delta) ==
    [token |-> token, data |-> data, expires_delta |-> expires_delta, now |-> clock]

\* what the client keeps of a 200 response of /auth/token or /auth/login:
\* the access token, whose claims are the sub and user_id of the user
Session(token) ==
    [token |-> token,
     data |-> [sub |-> token.payload["sub"], user_id |-> token.payload["user_id"]]]

LoggedIn(request, response, now2) ==
    /\ Answered(request, response)
    /\ IF response.status = 200
       THEN /\ issued' \in Keep(Session(response.body.access_token))
            /\ clock' = now2
       ELSE UNCHANGED <<issued, clock>>
    /\ UNCHANGED <<users, reg, registered>>

post_token ==
    \E username \in LoginUsernames, password \in LoginPasswords, now2 \in LaterReadings :
        LoggedIn([route |-> "token", username |-> username, password |-> password],
                 login_for_access_token(users, username, password, clock, now2), now2)

post_login ==
    \E username \in LoginUsernames, password \in LoginPasswords, now2 \in LaterReadings :
        LoggedIn([route |-> "login", username |-> username, password |-> password],
                 login(users, username, password, clock, now2), now2)

\* what a client may present as a bearer token: a token it was given, one
\* whose expiry it rewrote (keeping the signature), one signed with another key
Tamper(token) ==
    [token EXCEPT !.payload = [k \in DOMAIN token.payload |->
        IF k = "exp" THEN token.payload[k] + ACCESS_TOKEN_EXPIRE_MINUTES * 60
        ELSE token.payload[k]]]
Foreign ==
    jwt_encode([sub |-> alice, user_id |-> 1,
                exp |-> (MaxEpoch + 1) * timedelta_minutes(ACCESS_TOKEN_EXPIRE_MINUTES).ticks,
                iat |-> 0, type |-> "access"],
               "attacker-key", ALGORITHM)
Presented == Tokens \cup {Tamper(t) : t \in Tokens} \cup {Foreign}

BearerRoutes == {"me", "logout", "verify-token", "protected", "admin-only", "public-or-private"}
Route(route, rows, token, now) ==
    CASE route = "me" -> read_users_me(rows, token, now)
      [] route = "logout" -> logout(rows, token, now)
      [] route = "verify-token" -> verify_user_token(rows, token, now)
      [] route = "protected" -> protected_route(rows, token, now)
      [] route = "admin-only" -> admin_only_route(rows, token, now)
      [] route = "public-or-private" -> public_or_private_route(rows, token, now)

Serve(route) ==
    \E token \in Presented :
        /\ Answered([route |-> route, token |-> token], Route(route, users, token, clock))
        /\ UNCHANGED <<users, reg, issued, clock, registered>>

get_me == Serve("me")
post_logout == Serve("logout")
get_verify_token == Serve("verify-token")
get_protected == Serve("protected")
get_admin_only == Serve("admin-only")
get_public_or_private == Serve("public-or-private")

Next ==
    \/ post_register
    \/ set_user_activity
    \/ post_token
    \/ post_login
    \/ get_me
    \/ post_logout
    \/ get_verify_token
    \/ get_protected
    \/ get_admin_only
    \/ get_public_or_private
    \/ Tick
    \/ Receive

Spec == Init /\ [][Next]_vars

\* -------------------------------- several workers sharing auth.db (ConcSpec)
\* register_user reads the table twice and then writes it; with more than
\* one worker process the statements of two requests interleave
register_user_username_exists(p) ==
    \E body \in RegisterRequests :
        LET user_data == UserCreate(body) IN
        /\ reg[p].pc = "idle"
        /\ IF user_data = None
           THEN /\ Answered([route |-> "register", body |-> body],
                            Response("register", HTTPException(422, "Unprocessable Entity", NoHeaders), None))
                /\ reg' = reg
           ELSE IF username_exists(users, user_data.username)
           THEN /\ Answered([route |-> "register", body |-> body],
                            Response("register", HTTPException(400, "Username already registered", NoHeaders), None))
                /\ reg' = reg
           ELSE /\ resp = NoResponse
                /\ UNCHANGED <<req, resp>>
                /\ reg' = [reg EXCEPT ![p] =
                             [pc |-> "email_exists", body |-> body,
                              dup |-> \E i \in DOMAIN users :
                                         \/ users[i].username = user_data.username
                                         \/ users[i].email = user_data.email]]
        /\ UNCHANGED <<users, issued, clock, registered>>

register_user_email_exists(p) ==
    LET user_data == UserCreate(reg[p].body) IN
    /\ reg[p].pc = "email_exists"
    /\ IF email_exists(users, user_data.email)
       THEN /\ Answered([route |-> "register", body |-> reg[p].body],
                        Response("register", HTTPException(400, "Email already registered", NoHeaders), None))
            /\ reg' = [reg EXCEPT ![p] = Idle]
       ELSE /\ resp = NoResponse
            /\ UNCHANGED <<req, resp>>
            /\ reg' = [reg EXCEPT ![p].pc = "create_user"]
    /\ UNCHANGED <<users, issued, clock, registered>>

register_user_create_user(p) ==
    LET user_data == UserCreate(reg[p].body)
        created == create_user(users, user_data.email, user_data.username, user_data.password)
    IN
    /\ reg[p].pc = "create_user"
    /\ reg' = [reg EXCEPT ![p] = Idle]
    /\ IF created.ok
       THEN /\ users' = created.rows
            /\ Answered([route |-> "register", body |-> reg[p].body],
                        Response("register", OK(201),
                                 User(get_by_id(created.rows, created.lastrowid))))
            /\ registered' = registered \cup {Registered(reg[p].body, created.lastrowid)}
       ELSE /\ Answered([route |-> "register", body |-> reg[p].body],
                        Response("register", HTTPException(500, "Error creating user", NoHeaders), None))
            /\ UNCHANGED <<users, registered>>
    /\ UNCHANGED <<issued, clock>>

ConcNext ==
    \/ \E p \in Procs : register_user_username_exists(p)
    \/ \E p \in Procs : register_user_email_exists(p)
    \/ \E p \in Procs : register_user_create_user(p)
    \/ set_user_activity
    \/ Receive

ConcSpec == Init /\ [][ConcNext]_vars

\* ------------------------------- the token functions on their own (TokenSpec)
\* create_access_token and verify_token called with data and lifetimes of
\* the caller's choosing; the caller holds the token of its last call
TokenClaims ==
    { [sub |-> alice, user_id |-> 1], [sub |-> bob, user_id |-> 2], [user_id |-> 1] }
Deltas ==
    {None, timedelta_minutes(ACCESS_TOKEN_EXPIRE_MINUTES)}
        \cup {timedelta_ticks(n) : n \in 0..MaxTTL}

Result(fn, value) == Response(fn, OK(0), value)

call_create_access_token ==
    \E data \in TokenClaims, expires_delta \in Deltas, now2 \in LaterReadings :
        LET token == create_access_token(data, expires_delta, clock, now2) IN
        /\ Answered([route |-> "create_access_token", data |-> data,
                     expires_delta |-> expires_delta],
                    Result("create_access_token", token))
        /\ issued' = {Issuance(token, data, expires_delta)}
        /\ clock' = now2
        /\ UNCHANGED <<users, reg, registered>>

call_verify_token ==
    \E token \in Presented :
        /\ Answered([route |-> "verify_token", token |-> token],
                    Result("verify_token", verify_token(token, clock)))
        /\ UNCHANGED <<users, reg, issued, clock, registered>>

TokenNext ==
    \/ call_create_access_token
    \/ call_verify_token
    \/ Tick
    \/ Receive

TokenSpec == Init /\ [][TokenNext]_vars

\* ------------------ password checks on rows of any content (PasswordSpec)
\* hashed_password is a TEXT column: auth.db may hold rows whose digest was
\* not written by create_user.  Such a table, with one account:
\* a digest of create_user, an empty string, the password itself, a bcrypt
\* digest cut short, a digest of a scheme that is not configured
StoredHashes ==
    { pwd_hash(secret1, 1),
      [scheme |-> "", salt |-> 0, digest |-> <<>>],
      [scheme |-> "plaintext", salt |-> 0, digest |-> <<0, secret1>>],
      [scheme |-> "bcrypt", salt |-> 1, digest |-> <<1>>],
      [scheme |-> "sha256_crypt", salt |-> 1, digest |-> <<1, secret1>>] }

PasswordInit ==
    /\ \E hashed_password \in StoredHashes, is_active \in BOOLEAN :
          users = << [id |-> 1, email |-> "alice@example.com", username |-> alice,
                      hashed_password |-> hashed_password, is_active |-> is_active] >>
    /\ reg = [p \in Procs |-> Idle]
    /\ issued = {}
    /\ clock = 0
    /\ req = NoRequest
    /\ resp = NoResponse
    /\ registered = {}

call_verify_password ==
    \E i \in DOMAIN users, plain_password \in LoginPasswords :
        /\ Answered([route |-> "verify_password", plain_password |-> plain_password,
                     hashed_password |-> users[i].hashed_password],
                    Result("verify_password",
                           verify_password(plain_password, users[i].hashed_password)))
        /\ UNCHANGED <<users, reg, issued, clock, registered>>

call_authenticate_user ==
    \E username \in LoginUsernames, password \in LoginPasswords :
        /\ Answered([route |-> "authenticate_user", username |-> username,
                     password |-> password],
                    Result("authenticate_user", authenticate_user(users, username, password)))
        /\ UNCHANGED <<users, reg, issued, clock, registered>>

PasswordNext ==
    \/ call_verify_password
    \/ call_authenticate_user
    \/ post_token
    \/ post_login
    \/ set_user_activity
    \/ Receive

PasswordSpec == PasswordInit /\ [][PasswordNext]_vars


\* ================================================================ claims

\* ---- C1 (ConcSpec): in every reachable state of the users table, after
\* any interleaving of register_user requests and update_user_activity
\* calls, no two rows share a username and no two share an email, active
\* or not.
C1_UniqueUsernameAndEmail ==
    \A i, j \in DOMAIN users :
        i # j => /\ users[i].username # users[j].username
                 /\ users[i].email # users[j].email

\* two rows, one of them inactive, and an INSERT that lost the race has
\* just been refused by the table
C1_Witness ==
    /\ Len(users) = 2
    /\ \E i \in DOMAIN users : ~users[i].is_active
    /\ req # NoRequest /\ req.route = "register"
    /\ resp.status = 500

\* the two answers of register_user to a taken username or email
AlreadyRegistered == {"Username already registered", "Email already registered"}

\* ---- C2 (ConcSpec): a register_user request whose username (with another
\* email) or whose email is already in the table when the request is made
\* is answered 400 "... already registered", and the step that answers it
\* leaves the table as it was.
C2_DuplicateRegistrationRejected ==
    [][ (resp = NoResponse /\ resp' # NoResponse /\ req'.route = "register") =>
        LET user_data == UserCreate(req'.body)
            taken_when_made ==
                \/ /\ reg' = reg
                   /\ user_data # None
                   /\ \E i \in DOMAIN users : \/ users[i].username = user_data.username
                                              \/ users[i].email = user_data.email
                \/ \E p \in Procs : reg[p].pc # "idle" /\ reg'[p] = Idle /\ reg[p].dup
        IN taken_when_made =>
              /\ resp'.status = 400
              /\ resp'.detail \in AlreadyRegistered
              /\ users' = users ]_vars

\* the username is taken and the email is not: answered "Username already registered"
C2_Witness ==
    /\ req # NoRequest /\ req.route = "register"
    /\ resp.status = 400 /\ resp.detail = "Username already registered"
    /\ \E i \in DOMAIN users : users[i].username = lower(req.body.username)
    /\ \A i \in DOMAIN users : users[i].email # req.body.email

\* ---- C3 (Spec): once register_user(u, email, p) has been answered 201,
\* authenticate_user(u, p) with the username as typed returns that user's
\* row, and both login routes answer 200 while the account is active.
C3_RegisteredUserAuthenticates ==
    \A r \in registered :
        LET user == authenticate_user(users, r.username, r.password) IN
        /\ user # None
        /\ user.id = r.id
        /\ user.is_active =>
              /\ login_for_access_token(users, r.username, r.password, clock, clock).status = 200
              /\ login(users, r.username, r.password, clock, clock).status = 200

\* an issuance with claims (username, user_id), one with a lifetime > 0,
\* and the claims verify_token is to return for it
HasClaims(i) == DOMAIN i.data = {"sub", "user_id"}
PositiveTTL(i) == i.expires_delta # None /\ i.expires_delta.ticks > 0
ClaimsOf(i) == Return(TokenData(i.data["sub"], i.data["user_id"]))

\* ---- C4 (TokenSpec), as claimed: for claims c = (username, user_id) and
\* ttl > 0, verify_token(create_access_token(c, ttl)) at any time
\* now < issue_time + ttl returns the claims c.
C4_ValidUntilIssuePlusTTL ==
    \A i \in issued :
        (HasClaims(i) /\ PositiveTTL(i) /\ clock < i.now + i.expires_delta.ticks)
            => verify_token(i.token, clock) = ClaimsOf(i)

\* ---- C4 (TokenSpec), amended: ... at any time now before the exp claim,
\* which is issue_time + ttl cut down to whole seconds, returns the claims c.
C4_ValidUntilExp ==
    \A i \in issued :
        (/\ HasClaims(i) /\ PositiveTTL(i)
         /\ clock < timegm(i.now + i.expires_delta.ticks) * TicksPerSecond)
            => verify_token(i.token, clock) = ClaimsOf(i)

\* verify_token has just returned the claims of a token made with a
\* lifetime of its own, at a time before its exp
C4_Witness ==
    /\ req # NoRequest /\ req.route = "verify_token"
    /\ \E i \in issued :
          /\ i.token = req.token /\ HasClaims(i) /\ PositiveTTL(i)
          /\ i.expires_delta.ticks <= MaxTTL
          /\ clock > i.now
          /\ clock < timegm(i.now + i.expires_delta.ticks) * TicksPerSecond
          /\ resp.body = ClaimsOf(i)

\* the expired and the invalid outcome of verify_token
Expired == Raise(HTTPException(401, "Token has expired", Bearer))
Invalid == Return(None)

\* ---- C5 (TokenSpec): a correctly signed token issued with ttl = T is
\* reported expired by verify_token at any time now > issue_time + T, an
\* outcome distinct from valid and from invalid; a token with a bad
\* signature or without a subject is reported invalid and never expired.
C5_ExpiredAfterTTL ==
    /\ Expired # Invalid
    /\ \A i \in issued :
          (i.expires_delta # None /\ clock > i.now + i.expires_delta.ticks)
              => verify_token(i.token, clock) = Expired
    /\ \A t \in Presented :
          (t.sig # HS256(t.payload, SECRET_KEY) \/ "sub" \notin DOMAIN t.payload)
              => verify_token(t, clock) = Invalid

\* no row has the username; a row has it and was registered with another password
Unknown(username) == \A i \in DOMAIN users : users[i].username # username
WrongPassword(username, password) ==
    \E i \in DOMAIN users :
        /\ users[i].username = username
        /\ \A r \in registered : r.id = users[i].id => r.password # password
\* the login attempts of the inputs of either kind
UnknownLogins == {c \in LoginUsernames \X LoginPasswords : Unknown(c[1])}
WrongLogins == {c \in LoginUsernames \X LoginPasswords : WrongPassword(c[1], c[2])}

\* ---- C6 (Spec): on /auth/token and on /auth/login the response to a
\* username that is not registered equals the response to a registered
\* username with a wrong password, active or not: status, detail, headers
\* and body do not tell the two apart.
C6_NoUsernameEnumeration ==
    /\ \A r1 \in {login_for_access_token(users, c[1], c[2], clock, clock) : c \in UnknownLogins},
          r2 \in {login_for_access_token(users, c[1], c[2], clock, clock) : c \in WrongLogins} :
            r1 = r2
    /\ \A r1 \in {login(users, c[1], c[2], clock, clock) : c \in UnknownLogins},
          r2 \in {login(users, c[1], c[2], clock, clock) : c \in WrongLogins} :
            r1 = r2

\* /auth/login has just refused a wrong password for an inactive account,
\* while another username of the inputs is not registered
C6_Witness ==
    /\ req # NoRequest /\ req.route = "login"
    /\ WrongPassword(req.username, req.password)
    /\ ~get_by_username(users, req.username).is_active
    /\ \E u \in LoginUsernames : Unknown(u)
    /\ resp.status = 401

\* ---- C7 (Spec): authenticate_user(u, pw) is None whenever no row has
\* username u; it returns a row only when a row with username u exists and
\* pw is the password that row was registered with (pw verifies against its
\* hash), and the row returned is that row.
C7_AuthenticateSound ==
    \A u \in LoginUsernames, pw \in LoginPasswords :
        LET user == authenticate_user(users, u, pw) IN
        /\ Unknown(u) => user = None
        /\ user # None =>
              \E i \in DOMAIN users :
                  /\ users[i].username = u
                  /\ user = users[i]
                  /\ verify_password(pw, users[i].hashed_password) = Return(TRUE)
                  /\ \E r \in registered : r.id = users[i].id /\ r.password = pw

\* /auth/token has just refused a username no row has, with other rows in the table
C7_Witness ==
    /\ req # NoRequest /\ req.route = "token"
    /\ Len(users) > 0 /\ Unknown(req.username)
    /\ resp.status = 401

\* the username a 200 response of a bearer route names, if any
Identified(response) ==
    CASE response.route \in {"me", "verify-token"} -> response.body.username
      [] response.route \in {"logout", "protected"} -> response.body.message[2]
      [] response.route = "admin-only" -> response.body.admin_user
      [] response.route = "public-or-private" ->
            IF response.body.user_type = "authenticated"
            THEN response.body.message[2] ELSE None
NoSuccessForInactive(routes) ==
    \A route \in routes, token \in Presented :
        LET response == Route(route, users, token, clock) IN
        (response.status = 200 /\ Identified(response) # None) =>
            \E i \in DOMAIN users :
                users[i].username = Identified(response) /\ users[i].is_active

\* ---- C8 (Spec), as claimed: no route taking a bearer token answers 200
\* with a body that identifies a user whose account is inactive.
C8_EveryBearerRouteRequiresActive == NoSuccessForInactive(BearerRoutes)

\* the routes that depend on get_current_active_user
ActiveGatedRoutes == {"me", "logout", "protected", "admin-only"}

\* ---- C8 (Spec), amended: the routes that depend on
\* get_current_active_user (/auth/me, /auth/logout, /auth/protected,
\* /auth/admin-only) never answer 200 identifying an inactive user;
\* /auth/verify-token and /auth/public-or-private depend on
\* get_current_user alone and do.
C8_ActiveGatedRoutesRequireActive == NoSuccessForInactive(ActiveGatedRoutes)

\* /auth/protected has just refused the token of an inactive user, which
\* /auth/verify-token would answer 200
C8_Witness ==
    /\ req # NoRequest /\ req.route = "protected" /\ req.token \in Tokens
    /\ resp.status # 200
    /\ verify_user_token(users, req.token, clock).status = 200
    /\ ~verify_user_token(users, req.token, clock).body.is_active

\* the current time is before the exp claim of the token
Unexpired(token) == clock < token.payload["exp"] * TicksPerSecond

\* ---- C9 (Spec): a token issued at login and not yet expired is refused
\* with 400 "Inactive user" by /auth/me, /auth/protected, /auth/logout and
\* /auth/admin-only whenever its user is inactive at the time of the
\* request, and accepted by them whenever the user is active (again).
C9_InactiveRefusedActiveAccepted ==
    \A i \in issued, route \in ActiveGatedRoutes :
        LET response == Route(route, users, i.token, clock) IN
        Unexpired(i.token) =>
            \E k \in DOMAIN users :
                /\ users[k].id = i.data["user_id"]
                /\ IF users[k].is_active
                   THEN response.status = 200 /\ Identified(response) = users[k].username
                   ELSE response.status = 400 /\ response.detail = "Inactive user"

\* /auth/me has just answered 400 "Inactive user" to an unexpired token
\* that a login handed out
C9_Witness ==
    /\ req # NoRequest /\ req.route = "me" /\ req.token \in Tokens
    /\ Unexpired(req.token)
    /\ resp.status = 400 /\ resp.detail = "Inactive user"

\* the table with the rows of a username removed
Without(rows, username) ==
    LET Other(row) == row.username # username IN SelectSeq(rows, Other)

\* ---- C10 (Spec): on a token that verify_token accepts, get_current_user
\* returns the user whose username is the token's sub and whose id is the
\* token's user_id; it raises the 401 credentials error when the table has
\* no such user, and raises on every token verify_token does not accept.
C10_CurrentUserIsTokenSubject ==
    \A token \in Presented :
        LET token_data == verify_token(token, clock)
            current_user == get_current_user(users, token, clock)
        IN IF ~token_data.raised /\ token_data.value # None
           THEN /\ ~current_user.raised
                /\ current_user.value.username = token.payload["sub"]
                /\ current_user.value.id = token.payload["user_id"]
                /\ get_current_user(Without(users, token.payload["sub"]), token, clock)
                     = Raise(credentials_exception)
           ELSE current_user.raised

\* /auth/verify-token has just answered 200 for the token of the second of two users
C10_Witness ==
    /\ req # NoRequest /\ req.route = "verify-token" /\ req.token \in Tokens
    /\ Len(users) = 2
    /\ resp.status = 200 /\ resp.body.user_id = 2
    /\ req.token.payload["user_id"] = 2

\* a lifetime of a whole number of seconds, and the lifetime in seconds a
\* token's claims show
WholeSeconds(delta) == delta # None /\ delta.ticks % TicksPerSecond = 0
ClaimedLifetime(token) == token.payload["exp"] - token.payload["iat"]

\* ---- C11 (TokenSpec): every token made by create_access_token(data, ttl)
\* has exp - iat equal to ttl in seconds, for every ttl passed (a token made
\* with the 30 minutes of the login routes has exp - iat = 1800).
C11_LifetimeIsTTL ==
    \A i \in issued :
        WholeSeconds(i.expires_delta) =>
            ClaimedLifetime(i.token) * TicksPerSecond = i.expires_delta.ticks

\* the account of a username is inactive; a password is the one the
\* account of a username was registered with
Inactive(username) ==
    \E i \in DOMAIN users : users[i].username = username /\ ~users[i].is_active
RightPassword(username, password) ==
    \E i \in DOMAIN users :
        /\ users[i].username = username
        /\ \E r \in registered : r.id = users[i].id /\ r.password = password
Refused(response, status_code, detail) ==
    /\ response.status = status_code
    /\ response.detail = detail
    /\ response.body = None

\* ---- C12 (Spec): neither login route mints a token for an account that
\* is inactive at the time of the login: with the right password it answers
\* the inactive-account error (400) and no token, with a wrong password the
\* generic invalid-credentials error (401); a 200 of a login route names an
\* active account.
C12_NoTokenForInactive ==
    /\ \A u \in LoginUsernames, pw \in LoginPasswords :
          Inactive(u) =>
              IF RightPassword(u, pw)
              THEN /\ Refused(login_for_access_token(users, u, pw, clock, clock),
                              400, "Inactive user")
                   /\ Refused(login(users, u, pw, clock, clock), 400, "Account is inactive")
              ELSE /\ Refused(login_for_access_token(users, u, pw, clock, clock),
                              401, "Incorrect username or password")
                   /\ Refused(login(users, u, pw, clock, clock), 401, "Invalid credentials")
    /\ (resp.route \in {"token", "login"} /\ resp.status = 200) =>
          \E i \in DOMAIN users :
              /\ users[i].username = resp.body.access_token.payload["sub"]
              /\ users[i].is_active

\* /auth/token has just answered 400 to the right password of an inactive account
C12_Witness ==
    /\ req # NoRequest /\ req.route = "token"
    /\ Inactive(req.username) /\ RightPassword(req.username, req.password)
    /\ Refused(resp, 400, "Inactive user")

\* ---- C13 (ConcSpec): when two register requests for the same username or
\* email both pass the existence checks before either inserts, one row is
\* created and the request whose INSERT fails on the duplicate key is
\* answered 400 "... already registered" like a sequential duplicate, not
\* with a server error: every registration that is refused after
\* validation is refused with 400 and one of the "already registered" details.
C13_LoserToldAlreadyRegistered ==
    (resp.route = "register" /\ resp.status \notin {201, 422}) =>
        /\ resp.status = 400
        /\ resp.detail \in AlreadyRegistered

\* the instant of a token's exp claim
ExpAt(token) == token.payload["exp"] * TicksPerSecond

\* ---- C14 (Spec), as claimed: verify_token reports a token a login handed
\* out valid at every time now <= exp, now = exp included, and expired at
\* every now > exp.
C14_ValidThroughExp ==
    \A i \in issued :
        IF clock <= ExpAt(i.token)
        THEN verify_token(i.token, clock) = ClaimsOf(i)
        ELSE verify_token(i.token, clock) = Expired

\* ---- C14 (Spec), amended: verify_token reports a token a login handed
\* out valid at every time now < exp and expired at every now >= exp
\* (now = exp included); once it is reported expired, no later verification
\* reports it valid; a logout answered 200 leaves the token valid.
C14_ValidBeforeExp ==
    [][ \A i \in issued :
          /\ IF clock < ExpAt(i.token)
             THEN verify_token(i.token, clock) = ClaimsOf(i)
             ELSE verify_token(i.token, clock) = Expired
          /\ verify_token(i.token, clock) = Expired
                => verify_token(i.token, clock') = Expired
          /\ (/\ req' # NoRequest /\ req'.route = "logout"
              /\ req'.token = i.token /\ resp'.status = 200)
                => /\ i \in issued'
                   /\ verify_token(i.token, clock') = ClaimsOf(i) ]_vars

\* a route has just answered 401 "Token has expired" to a token a login
\* handed out, at the instant of its exp
C14_Witness ==
    /\ req # NoRequest /\ req.route \in {"me", "logout", "verify-token", "protected"}
    /\ req.token \in Tokens
    /\ clock = ExpAt(req.token)
    /\ resp.status = 401 /\ resp.detail = "Token has expired"

\* a digest that is not a well-formed hash of the configured scheme
Malformed(hashed_password) ==
    hashed_password.scheme # "bcrypt" \/ Len(hashed_password.digest) # 2

\* ---- C15 (PasswordSpec): verify_password(plaintext, digest) returns
\* false and does not raise for every malformed digest, and
\* authenticate_user returns None for an account whose stored digest is
\* malformed.
C15_MalformedDigestIsFalse ==
    \A i \in DOMAIN users, pw \in LoginPasswords :
        Malformed(users[i].hashed_password) =>
            /\ verify_password(pw, users[i].hashed_password) = Return(FALSE)
            /\ authenticate_user(users, users[i].username, pw) = None

====
